---- MODULE Spec2Model ----
(***************************************************************************)
(* Hybrid local/remote photo synchronisation of Snapnepal: the Local       *)
(* Mirror (localStorage), the remote `photos` table with its realtime      *)
(* channel, the useRealtimePhotos subscription and the App gallery list.   *)
(* Modelled from src/services/supabase.ts (lines 1-416, the current        *)
(* Supabase revision) and src/App.tsx (lines 1-170); mergePhotos is the    *)
(* merge of the subscribeToPhotos revision (supabase.ts lines 797-807).    *)
(*                                                                         *)
(* Time: Date.now() on the devices and now() on the server read one        *)
(* strictly increasing clock `clock`; every read of a timestamp ticks it.  *)
(* Storage: localStorage.setItem may throw (quota) where the code catches  *)
(* it, in saveLocalBackup; the other writes never store more than is       *)
(* already stored and are modelled as succeeding.                          *)
(***************************************************************************)
EXTENDS Integers, Sequences, FiniteSets, TLC

Devices == {"A", "B"}

\* Bounds of the model.
MaxOps == 3          \* user operations (capture, edit, delete, clear, reload) in a run
MaxQueue == 2        \* realtime events pending per device; more are lost
MaxCaptures == 2     \* captures in a run of the two-device specification
MaxUpserts == 53     \* saveLocalBackup calls in the Local Mirror specification
MaxQuota == 2        \* failed writes in a run of the Local Mirror specification
MaxBatch == 2        \* records in a batch given to mergePhotos
MaxStored == 3       \* records stored by the local-storage variant

\* Program constants.
LocalCap == 50       \* updated.length = 50
ShrinkTo == 10       \* current.slice(0, 10)
FetchLimit == 50     \* .limit(50)

Undefined == "undefined"     \* a key absent from a PhotoData object
Null == "null"               \* a NULL column of a row
Base64 == "data:"            \* the inline image of canvas.toDataURL
PublicUrl == "http"          \* the public URL of an uploaded blob
BioInputs == {"hi"}          \* the bio texts a user types
AiCaption == "ai"            \* a caption the model returned
FallbackCaption == "Sweet memory"    \* the caption of the catch branch

\* The fields of PhotoData that updatePhoto copies to the row; of them the
\* records of the model carry bio.
AllowList == {"caption", "authorName", "bio", "socialHandle"}

\* The `updates` a caller passes to updatePhoto (Partial<PhotoData>): the
\* payload of Polaroid.handleBlur, and a payload with a field outside the
\* allow-list.
UpdateInputs == {[bio |-> b] : b \in BioInputs} \cup {[imageUrl |-> PublicUrl]}

FullColumns == {"id", "image_url", "caption", "date", "rotation", "z_index",
                "x", "y", "author_name", "bio", "social_handle"}
MinimalColumns == {"id", "image_url", "caption"}

\* The outcomes of a row insert: success, or the error the client receives:
\*   "42703"                  code 42703, a column does not exist
\*   "could_not_find_column"  message "Could not find the 'caption' column ..."
\*   "42P01"                  code 42P01, the table does not exist
\*   "could_not_find_table"   message "Could not find the table ..."
\*   "other"                  any other code and message
InsertOutcomes == {"ok", "42703", "could_not_find_column", "42P01",
                   "could_not_find_table", "other"}

\* The errors that report a missing column, and those that report a missing
\* table.
ColumnNotFound == {"42703", "could_not_find_column"}
TableNotFound == {"42P01", "could_not_find_table"}

\* dbError.code and dbError.message.includes('Could not find the')
Code(outcome) == IF outcome \in {"42703", "42P01"} THEN outcome ELSE "other"
MessageHasCouldNotFindThe(outcome) ==
    outcome \in {"could_not_find_column", "could_not_find_table"}

(***************************************************************************)
(* Pure helpers                                                            *)
(***************************************************************************)
Ids(s) == {s[i].id : i \in 1..Len(s)}

HasId(s, id) == \E i \in 1..Len(s) : s[i].id = id

\* current.findIndex(p => p.id === id); 0 stands for -1
FindIndex(s, id) ==
    IF HasId(s, id) THEN CHOOSE i \in 1..Len(s) :
                            s[i].id = id /\ \A j \in 1..(i-1) : s[j].id # id
    ELSE 0

\* current.filter(p => p.id !== id)
RECURSIVE FilterOut(_, _)
FilterOut(s, id) ==
    IF s = <<>> THEN <<>>
    ELSE (IF Head(s).id = id THEN <<>> ELSE <<Head(s)>>) \o FilterOut(Tail(s), id)

\* arr.slice(0, n)
Take(s, n) == SubSeq(s, 1, IF Len(s) < n THEN Len(s) ELSE n)

\* Array.from(new Map(combined.map(item => [item.id, item])).values()):
\* a key keeps the position of its first entry and the value of its last.
LastWithId(s, id) ==
    s[CHOOSE i \in 1..Len(s) : s[i].id = id /\ \A j \in (i+1)..Len(s) : s[j].id # id]

RECURSIVE MapValuesFrom(_, _)
MapValuesFrom(s, i) ==
    IF i > Len(s) THEN <<>>
    ELSE (IF \A j \in 1..(i-1) : s[j].id # s[i].id
          THEN <<LastWithId(s, s[i].id)>> ELSE <<>>) \o MapValuesFrom(s, i+1)

MapValues(s) == MapValuesFrom(s, 1)

\* unique.sort((a, b) => b.timestamp - a.timestamp): a stable sort,
\* descending. Before(s, i): the entries the sort puts before entry i, those
\* with a later timestamp and those with the same timestamp that precede it.
Before(s, i) ==
    {j \in 1..Len(s) : \/ s[j].timestamp > s[i].timestamp
                       \/ s[j].timestamp = s[i].timestamp /\ j < i}

SortDesc(s) ==
    [k \in 1..Len(s) |->
        s[CHOOSE i \in 1..Len(s) : Cardinality(Before(s, i)) = k - 1]]

SortedDesc(s) == \A i \in 1..(Len(s)-1) : s[i].timestamp >= s[i+1].timestamp

\* mapDBToPhotoData: bio is row.bio || row.author_name || ""
mapDBToPhotoData(row) ==
    [id |-> row.id,
     imageUrl |-> row.image_url,
     bio |-> IF row.bio = Null THEN "" ELSE row.bio,
     timestamp |-> row.created_at]

MapRows(rows) == [i \in 1..Len(rows) |-> mapDBToPhotoData(rows[i])]

\* if (unique.length !== currentPhotos.length ||
\*     JSON.stringify(unique) !== JSON.stringify(currentPhotos))
Merged(cur, unique) ==
    [photos |-> unique, publish |-> Len(unique) # Len(cur) \/ unique # cur]

\* No two entries of s share an id.
Unique(s) == \A i, j \in 1..Len(s) : s[i].id = s[j].id => i = j

\* { ...p, ...updates }
Spread(p, updates) ==
    [k \in DOMAIN p |-> IF k \in DOMAIN updates THEN updates[k] ELSE p[k]]

\* dbUpdates.bio of updatePhoto: undefined when updates carries no bio
DbBio(updates) == IF "bio" \in DOMAIN updates THEN updates.bio ELSE Undefined

\* generatePhotoCaption: the caption of the model, or, when the call or the
\* parse throws, the caption of the catch branch; it never rejects.
generatePhotoCaption(ok) == IF ok THEN AiCaption ELSE FallbackCaption

\* photos.slice().reverse()
Reverse(s) == [i \in 1..Len(s) |-> s[Len(s) + 1 - i]]

\* The Polaroids of the grid of PinboardGallery, in the order of the
\* document: photos.slice().reverse().map(...)
PinboardGallery(photos) == Reverse(photos)

\* A variant of mergePhotos with a plausible fault: the local photos are set
\* last.
mergePhotosLocalLast(cloudPhotos, localPhotos) ==
    SortDesc(MapValues(cloudPhotos \o localPhotos))

\* mergePhotos: photoMap.set for the local photos, then for the cloud photos,
\* then Array.from(photoMap.values()).sort(...)
mergePhotos(cloudPhotos, localPhotos) ==
    SortDesc(MapValues(localPhotos \o cloudPhotos))

\* Variants of update with a plausible fault: the batch replaces the list;
\* the sort is left out; the entries are not made unique.
updateKeepsDuplicates(cur, newPhotos) ==
    CHOOSE r \in {Merged(cur, SortDesc(combined)) :
                      combined \in {newPhotos \o cur}} : TRUE

updateRemoteOnly(cur, newPhotos) ==
    CHOOSE r \in {Merged(cur, SortDesc(values)) :
                      values \in {MapValues(newPhotos)}} : TRUE

updateUnsorted(cur, newPhotos) ==
    CHOOSE r \in {Merged(cur, values) :
                      values \in {MapValues(newPhotos \o cur)}} : TRUE

\* The merge of useRealtimePhotos.update: the list it computes and whether it
\* publishes it. (The sets of one element bind combined, values and unique
\* to their values.)
update(cur, newPhotos) ==
    CHOOSE r \in {Merged(cur, unique) :
                      unique \in {SortDesc(values) :
                          values \in {MapValues(combined) :
                              combined \in {newPhotos \o cur}}}} : TRUE

\* A variant of saveLocalBackup with a plausible fault: the cap cuts the
\* newest record.
saveLocalBackupKeepsOldest(current, photo, quota) ==
    IF HasId(current, photo.id) THEN [stored |-> current, event |-> FALSE]
    ELSE IF ~quota
         THEN [stored |-> Take(current \o <<photo>>, LocalCap), event |-> TRUE]
         ELSE [stored |-> IF Len(current) > ShrinkTo THEN Take(current, ShrinkTo)
                          ELSE current,
               event |-> FALSE]

\* A variant of saveLocalBackup with a plausible fault: the shrink after a
\* failed write keeps the end of the list.
saveLocalBackupShrinksTail(current, photo, quota) ==
    IF HasId(current, photo.id) THEN [stored |-> current, event |-> FALSE]
    ELSE IF ~quota
         THEN [stored |-> Take(<<photo>> \o current, LocalCap), event |-> TRUE]
         ELSE [stored |-> IF Len(current) > ShrinkTo
                          THEN SubSeq(current, Len(current) - ShrinkTo + 1,
                                      Len(current))
                          ELSE current,
               event |-> FALSE]

\* saveLocalBackup on the stored list: quota = TRUE when setItem throws.
saveLocalBackup(current, photo, quota) ==
    IF HasId(current, photo.id) THEN [stored |-> current, event |-> FALSE]
    ELSE IF ~quota
         THEN [stored |-> Take(<<photo>> \o current, LocalCap), event |-> TRUE]
         ELSE [stored |-> IF Len(current) > ShrinkTo THEN Take(current, ShrinkTo)
                          ELSE current,
               event |-> FALSE]

\* .select('*').order('created_at', {ascending: false}).limit(50); no two
\* rows share a created_at
RowsDesc(rows) ==
    [k \in 1..Cardinality(rows) |->
        CHOOSE r \in rows :
            Cardinality({q \in rows : q.created_at > r.created_at}) = k - 1]

listRecent(rows) == Take(RowsDesc(rows), FetchLimit)

(***************************************************************************)
(* State                                                                   *)
(***************************************************************************)
VARIABLES
    clock,          \* the last timestamp any clock read returned
    ops,            \* user operations started so far; also the last id issued
    photos,         \* the remote table `photos`: a set of rows
    localStorage,   \* per device: the list stored under LOCAL_STORAGE_KEY
    subscribed,     \* per device: a useRealtimePhotos subscription is live
    currentPhotos,  \* per device: the closure variable of useRealtimePhotos,
                    \* equal to the list last passed to onPhotosUpdated
    lastPublish,    \* per device: what the last step passed to onPhotosUpdated
    remoteBatch,    \* per device: the remote batch the last step merged
    dbError,        \* per device: how the full insert that the last step saw
                    \* resolve ended
    galleryPhotos,  \* per device: App's galleryPhotos state
    capture,        \* per device: the handleTakePhoto call in flight
    admin,          \* per device: the updatePhoto/deletePhoto/clearAllPhotos
                    \* call in flight
    fetch,          \* per device: the fetchCloud call in flight
    events,         \* per device: realtime events not yet delivered
    offline,        \* the captures that ended with every remote call failed
    unsaved,        \* ids whose write to the Local Mirror threw
    removed,        \* ids that have left a Local Mirror (delete, clear, the cap,
                    \* the shrink after a failed write)
    clearRun,       \* the latest clearAllPhotos, when no other operation ran
                    \* beside it: "running", then "ok" (the remote delete
                    \* succeeded and every event of it is or was pending),
                    \* "empty" (it found no row to delete),
                    \* "lossy" (it succeeded, an event of it was lost),
                    \* "raced" (it succeeded, then the result of a fetch that
                    \* had read the table before it was merged) or "failed"
    toastMessage,   \* per device: the type of App's toastMessage, "none" before
                    \* the first showNotification
    lastCall,       \* per device: the call of the user that the last step
                    \* started (updatePhoto) or saw return (uploadAndSavePhoto)
    dispatched,     \* per device: the last step dispatched 'local-gallery-update'
    fetched,        \* per device: the last step merged the result of a fetch
    deleted,        \* the <<device, id>> that deletePhoto was called with
    missed,         \* per device: the UPDATE and DELETE events its channel
                    \* lost, as [type, id, polled]; polled: fetchCloud has
                    \* been called since. (What a lost INSERT event reported
                    \* is a row of the table.)
    retroSnapGallery,
                    \* the App of the local-storage variant: the item
                    \* 'retro-snap-gallery' (stored), the galleryPhotos state, the
                    \* time, and what the last step, if a load, found stored (loaded)
    alerted,
                    \* per device: handleConfirmAction of the gallery has shown
                    \* 'Action failed. Please check your connection.'
    deletedIds,
                    \* per device: the ids of the DELETE events its live subscription
                    \* has handled (deletedId)
    earlyDeletes,
                    \* the ids deletePhoto was called with while uploadAndSavePhoto
                    \* of the id had not issued its insert, less those whose remote
                    \* delete returned an error
    edited,
                    \* per device: [id, bio] of the last bio that handleUpdatePhoto was
                    \* called with for a record still displayed, since the page loaded
    merge           \* the mergePhotos call of the specification SpecMerge: its
                    \* arguments and, once it has returned, its result

vars == <<clock, ops, photos, localStorage, subscribed, currentPhotos,
          lastPublish, remoteBatch, dbError, galleryPhotos, capture, admin, fetch,
          events, offline, unsaved, removed, clearRun, toastMessage, lastCall,
          dispatched, fetched, deleted, missed, retroSnapGallery, alerted, deletedIds, earlyDeletes, edited, merge>>

\* inserts: the column sets of the inserts the capture has issued; upload:
\* how the storage upload ended, "none" before it has
IdleCapture == [pc |-> "idle", id |-> 0, caption |-> Undefined, upload |-> "none",
                finalImageUrl |-> Base64, inserts |-> <<>>]
IdleAdmin == [kind |-> "idle", id |-> 0, bio |-> Undefined, ids |-> {}]
NoFetch == [st |-> "idle", rows |-> <<>>]

NoPublish == [e \in Devices |-> "none"]
NoBatch == [e \in Devices |-> <<>>]
NoError == [e \in Devices |-> "none"]
NoCall == [e \in Devices |-> [fn |-> "none"]]
NoDispatch == [e \in Devices |-> FALSE]
NoFetched == [e \in Devices |-> FALSE]
\* The local-storage variant before its App has mounted: no item stored.
NoGallery == [item |-> FALSE, stored |-> <<>>, galleryPhotos |-> <<>>, now |-> 0,
              loaded |-> FALSE, found |-> <<>>]
NoMerge == [cloudPhotos |-> <<>>, localPhotos |-> <<>>, returned |-> FALSE,
            result |-> <<>>]

\* The step starts or ends no call of the user, dispatches no
\* 'local-gallery-update' and merges no fetch result.
NoMarks ==
    /\ lastCall' = NoCall
    /\ dispatched' = NoDispatch
    /\ fetched' = NoFetched

\* What one step tells the subscriber of device d: `seqs` are the lists it
\* passes to onPhotosUpdated, in order, starting from the published list `prev`.
RECURSIVE PublishKind(_, _)
PublishKind(prev, seqs) ==
    IF seqs = <<>> THEN "none"
    ELSE IF Head(seqs) = prev THEN "same"
    ELSE IF PublishKind(Head(seqs), Tail(seqs)) = "same" THEN "same"
    ELSE "changed"

Published(d, seqs) ==
    [e \in Devices |-> IF e = d THEN PublishKind(currentPhotos[d], seqs) ELSE "none"]

\* A variant of handleLocalUpdate with a plausible fault: the listener is
\* not registered.
handleLocalUpdateUnregistered(d, cur, stored) ==
    [photos |-> cur, publish |-> FALSE]

\* handleLocalUpdate, run by the 'local-gallery-update' event when a
\* subscription of the device listens: update(getLocalPhotos()).
handleLocalUpdate(d, cur, stored) ==
    IF subscribed[d] THEN update(cur, stored)
    ELSE [photos |-> cur, publish |-> FALSE]

\* The channel delivers a change to every device with a live subscription; a
\* device that already has MaxQueue events pending misses it.
Broadcast(evs) ==
    [e \in Devices |-> IF subscribed[e] THEN Take(events[e] \o evs, MaxQueue)
                       ELSE events[e]]

\* The entry of `missed` for a lost event.
LostEvent(ev) ==
    IF ev.type = "INSERT" THEN {}
    ELSE {[type |-> ev.type, id |-> ev.row.id, polled |-> FALSE]}

\* What the channels have lost once the UPDATE and DELETE events `evs` are
\* broadcast.
Lost(evs) ==
    [e \in Devices |->
        IF subscribed[e]
        THEN missed[e] \cup UNION {LostEvent((events[e] \o evs)[i]) :
                                       i \in (MaxQueue + 1)..Len(events[e] \o evs)}
        ELSE missed[e]]

\* fetchCloud is called on d: its result will show the changes that the
\* events lost so far reported.
Polled(d) ==
    [missed EXCEPT ![d] = {[ev EXCEPT !.polled = TRUE] : ev \in @}]

Overflows(evs) ==
    \E e \in Devices : subscribed[e] /\ Len(events[e]) + Len(evs) > MaxQueue

RowIds == {r.id : r \in photos}
RowOf(id) == CHOOSE r \in photos : r.id = id

\* The state after App has mounted on the devices of `live`: an empty Local
\* Mirror, the subscription made, its first fetchCloud in flight.
Mounted(live) ==
    /\ clock = 0
    /\ ops = 0
    /\ photos = {}
    /\ localStorage = [d \in Devices |-> <<>>]
    /\ subscribed = [d \in Devices |-> d \in live]
    /\ currentPhotos = [d \in Devices |-> <<>>]
    /\ lastPublish = [d \in Devices |-> IF d \in live THEN "initial" ELSE "none"]
    /\ galleryPhotos = [d \in Devices |-> <<>>]
    /\ capture = [d \in Devices |-> IdleCapture]
    /\ admin = [d \in Devices |-> IdleAdmin]
    /\ fetch = [d \in Devices |-> IF d \in live THEN [st |-> "sent", rows |-> <<>>]
                                  ELSE NoFetch]
    /\ events = [d \in Devices |-> <<>>]
    /\ remoteBatch = NoBatch
    /\ dbError = NoError
    /\ offline = {}
    /\ unsaved = {}
    /\ removed = {}
    /\ clearRun = "none"
    /\ toastMessage = [d \in Devices |-> "none"]
    /\ lastCall = NoCall
    /\ dispatched = NoDispatch
    /\ fetched = NoFetched
    /\ deleted = {}
    /\ missed = [d \in Devices |-> {}]
    /\ edited = [d \in Devices |-> {}]
    /\ earlyDeletes = {}
    /\ deletedIds = [d \in Devices |-> {}]
    /\ alerted = [d \in Devices |-> FALSE]

Start(live) ==
    Mounted(live) /\ merge = NoMerge /\ retroSnapGallery = NoGallery

NoOpInFlight ==
    \A d \in Devices : capture[d].pc = "idle" /\ admin[d].kind = "idle"

(***************************************************************************)
(* Capture: RetroCamera.handleShutter, App.handleTakePhoto,                *)
(* uploadAndSavePhoto                                                      *)
(***************************************************************************)
\* handleShutter (it returns when isProcessing) and handleTakePhoto up to
\* `await generatePhotoCaption`.
TakePhoto(d) ==
    /\ subscribed[d]
    /\ capture[d].pc = "idle"
    /\ ops < MaxOps
    /\ ops' = ops + 1
    /\ capture' = [capture EXCEPT ![d] = [IdleCapture EXCEPT !.pc = "caption",
                                                              !.id = ops + 1]]
    /\ lastPublish' = NoPublish
    /\ remoteBatch' = NoBatch
    /\ dbError' = NoError
    /\ clearRun' = "none"
    /\ NoMarks
    /\ UNCHANGED <<clock, photos, localStorage, subscribed, currentPhotos,
                   galleryPhotos, admin, fetch, events, offline, unsaved, removed,
                   toastMessage, deleted, missed, retroSnapGallery, alerted, deletedIds, earlyDeletes, edited, merge>>

\* setGalleryPhotos(prev => [optimisticPhoto, ...prev])
Optimistic(photo, prev) == <<photo>> \o prev

\* The caption resolves (generatePhotoCaption never rejects): the optimistic
\* record goes to the head of galleryPhotos, the toast is shown, then
\* uploadAndSavePhoto runs up to its first await: timestamp, saveLocalBackup,
\* storage upload issued.
CaptionDone(d, captionOk, quota) ==
    /\ capture[d].pc = "caption"
    /\ LET photo == [id |-> capture[d].id, imageUrl |-> Base64,
                     bio |-> Undefined, timestamp |-> clock + 1]
           optimistic == Optimistic(photo, galleryPhotos[d])
           sv == saveLocalBackup(localStorage[d], photo, quota)
           r == IF sv.event THEN handleLocalUpdate(d, currentPhotos[d], sv.stored)
                ELSE [photos |-> currentPhotos[d], publish |-> FALSE]
       IN  /\ clock' = clock + 1
           /\ localStorage' = [localStorage EXCEPT ![d] = sv.stored]
           /\ currentPhotos' = [currentPhotos EXCEPT ![d] =
                                    IF r.publish THEN r.photos ELSE @]
           /\ galleryPhotos' = [galleryPhotos EXCEPT ![d] =
                                    IF r.publish THEN r.photos ELSE optimistic]
           /\ lastPublish' = Published(d, IF r.publish THEN <<r.photos>> ELSE <<>>)
           /\ capture' = [capture EXCEPT ![d].pc = "upload",
                                         ![d].caption = generatePhotoCaption(captionOk)]
           /\ unsaved' = IF sv.event THEN unsaved ELSE unsaved \cup {photo.id}
           /\ removed' = removed \cup (Ids(localStorage[d]) \ Ids(sv.stored))
           /\ dispatched' = [NoDispatch EXCEPT ![d] = sv.event]
    /\ toastMessage' = [toastMessage EXCEPT ![d] = "success"]
    /\ remoteBatch' = NoBatch
    /\ dbError' = NoError
    /\ lastCall' = NoCall
    /\ fetched' = NoFetched
    /\ UNCHANGED <<ops, photos, subscribed, admin, fetch, events, offline,
                   clearRun, deleted, missed, retroSnapGallery, alerted, deletedIds, earlyDeletes, edited, merge>>

\* A variant of SetImageUrl with a plausible fault: a record no longer stored
\* is stored again.
SetImageUrlOrStore(stored, id, url) ==
    IF HasId(stored, id)
    THEN [i \in 1..Len(stored) |->
             IF i = FindIndex(stored, id) THEN [stored[i] EXCEPT !.imageUrl = url]
             ELSE stored[i]]
    ELSE <<[id |-> id, imageUrl |-> url, bio |-> Undefined, timestamp |-> 0]>>
             \o stored

\* current[index].imageUrl = finalImageUrl, when the record is still stored
SetImageUrl(stored, id, url) ==
    [i \in 1..Len(stored) |->
        IF i = FindIndex(stored, id) THEN [stored[i] EXCEPT !.imageUrl = url]
        ELSE stored[i]]

\* The storage upload resolves; the full row insert is issued.
UploadDone(d, ok) ==
    /\ capture[d].pc = "upload"
    /\ LET url == IF ok THEN PublicUrl ELSE Base64
       IN  /\ localStorage' = [localStorage EXCEPT ![d] =
                 IF url = PublicUrl THEN SetImageUrl(@, capture[d].id, url) ELSE @]
           /\ capture' = [capture EXCEPT ![d].pc = "insert",
                                         ![d].upload = IF ok THEN "ok" ELSE "failed",
                                         ![d].finalImageUrl = url,
                                         ![d].inserts = <<FullColumns>>]
    /\ lastPublish' = NoPublish
    /\ remoteBatch' = NoBatch
    /\ dbError' = NoError
    /\ NoMarks
    /\ UNCHANGED <<clock, ops, photos, subscribed, currentPhotos, galleryPhotos,
                   admin, fetch, events, offline, unsaved, removed, clearRun,
                   toastMessage, deleted, missed, retroSnapGallery, alerted, deletedIds, earlyDeletes, edited, merge>>

\* A variant of NewRow with a plausible fault: the row always takes the
\* inline image.
NewRowInline(d) == [id |-> capture[d].id, image_url |-> Base64,
                    bio |-> Null, created_at |-> clock + 1]

\* The row the table holds after an insert of the capture of d: the columns
\* the model does not carry are left out, bio is not sent (undefined).
NewRow(d) == [id |-> capture[d].id, image_url |-> capture[d].finalImageUrl,
              bio |-> Null, created_at |-> clock + 1]

InsertRow(d) ==
    /\ capture[d].id \notin RowIds
    /\ clock' = clock + 1
    /\ photos' = photos \cup {NewRow(d)}
    /\ events' = Broadcast(<<[type |-> "INSERT", row |-> NewRow(d)]>>)
    /\ UNCHANGED offline

NoRow(d) ==
    /\ offline' = IF capture[d].finalImageUrl = Base64
                  THEN offline \cup {<<d, capture[d].id>>} ELSE offline
    /\ UNCHANGED <<clock, photos, events>>

\* uploadAndSavePhoto returns finalImageUrl to handleTakePhoto: the call as
\* it ended, `row` telling whether an insert of it succeeded.
Returned(d, row) ==
    [NoCall EXCEPT ![d] = [fn |-> "uploadAndSavePhoto", id |-> capture[d].id,
                           caption |-> capture[d].caption,
                           upload |-> capture[d].upload,
                           finalImageUrl |-> capture[d].finalImageUrl,
                           row |-> row]]

\* if (dbError.code === '42703' || dbError.message.includes('Could not find the'))
IsSchemaMismatch(outcome) ==
    Code(outcome) = "42703" \/ MessageHasCouldNotFindThe(outcome)

\* The full insert resolves.
InsertDone(d, outcome) ==
    /\ capture[d].pc = "insert"
    /\ IF outcome = "ok"
       THEN /\ InsertRow(d)
            /\ capture' = [capture EXCEPT ![d] = IdleCapture]
            /\ lastCall' = Returned(d, TRUE)
       ELSE IF IsSchemaMismatch(outcome)
       THEN /\ capture' = [capture EXCEPT ![d].pc = "retry",
                               ![d].inserts = Append(@, MinimalColumns)]
            /\ lastCall' = NoCall
            /\ UNCHANGED <<clock, photos, events, offline>>
       ELSE /\ NoRow(d)
            /\ capture' = [capture EXCEPT ![d] = IdleCapture]
            /\ lastCall' = Returned(d, FALSE)
    /\ lastPublish' = NoPublish
    /\ remoteBatch' = NoBatch
    /\ dbError' = [NoError EXCEPT ![d] = outcome]
    /\ dispatched' = NoDispatch
    /\ fetched' = NoFetched
    /\ UNCHANGED <<ops, localStorage, subscribed, currentPhotos, galleryPhotos,
                   admin, fetch, unsaved, removed, clearRun, toastMessage,
                   deleted, missed, retroSnapGallery, alerted, deletedIds, earlyDeletes, edited, merge>>

\* The minimal insert resolves; its result is not looked at.
RetryDone(d, ok) ==
    /\ capture[d].pc = "retry"
    /\ IF ok THEN InsertRow(d) ELSE NoRow(d)
    /\ capture' = [capture EXCEPT ![d] = IdleCapture]
    /\ lastCall' = Returned(d, ok)
    /\ lastPublish' = NoPublish
    /\ remoteBatch' = NoBatch
    /\ dbError' = NoError
    /\ dispatched' = NoDispatch
    /\ fetched' = NoFetched
    /\ UNCHANGED <<ops, localStorage, subscribed, currentPhotos, galleryPhotos,
                   admin, fetch, unsaved, removed, clearRun, toastMessage,
                   deleted, missed, retroSnapGallery, alerted, deletedIds, earlyDeletes, edited, merge>>

(***************************************************************************)
(* Edit, delete, clear: App.handleUpdatePhoto, updatePhoto, deletePhoto,   *)
(* clearAllPhotos                                                          *)
(***************************************************************************)
\* prev.map(p => p.id === id ? { ...p, ...data } : p)
SpreadAll(s, id, data) ==
    [i \in 1..Len(s) |-> IF s[i].id = id THEN Spread(s[i], data) ELSE s[i]]

\* current[index] = { ...current[index], ...updates }
SpreadAt(stored, id, updates) ==
    [i \in 1..Len(stored) |->
        IF i = FindIndex(stored, id) THEN Spread(stored[i], updates)
        ELSE stored[i]]

\* What a change of the Local Mirror of d to `stored` does to its
\* subscription when it dispatches 'local-gallery-update'.
LocalChange(d, stored, shown) ==
    LET r == handleLocalUpdate(d, currentPhotos[d], stored)
    IN  /\ localStorage' = [localStorage EXCEPT ![d] = stored]
        /\ currentPhotos' = [currentPhotos EXCEPT ![d] =
                                 IF r.publish THEN r.photos ELSE @]
        /\ galleryPhotos' = [galleryPhotos EXCEPT ![d] =
                                 IF r.publish THEN r.photos ELSE shown]
        /\ lastPublish' = Published(d, IF r.publish THEN <<r.photos>> ELSE <<>>)
        /\ remoteBatch' = NoBatch
        /\ dbError' = NoError
        /\ dispatched' = [NoDispatch EXCEPT ![d] = TRUE]

\* `edited` of d without the entry of id.
Unedited(d, id) == {e \in edited[d] : e.id # id}

\* handleUpdatePhoto(id, updates) on a displayed record: the optimistic edit
\* of galleryPhotos, then updatePhoto up to its await of the remote update, or
\* to its return when updates carries no field of the allow-list.
UpdatePhoto(d, id, updates) ==
    /\ subscribed[d]
    /\ admin[d].kind = "idle"
    /\ ops < MaxOps
    /\ HasId(galleryPhotos[d], id)
    /\ ops' = ops + 1
    /\ IF HasId(localStorage[d], id)
       THEN LocalChange(d, SpreadAt(localStorage[d], id, updates),
                        SpreadAll(galleryPhotos[d], id, updates))
       ELSE /\ galleryPhotos' = [galleryPhotos EXCEPT ![d] =
                                    SpreadAll(@, id, updates)]
            /\ lastPublish' = NoPublish
            /\ remoteBatch' = NoBatch
            /\ dbError' = NoError
            /\ dispatched' = NoDispatch
            /\ UNCHANGED <<localStorage, currentPhotos>>
    /\ admin' = [admin EXCEPT ![d] =
                     IF DbBio(updates) = Undefined THEN IdleAdmin
                     ELSE [IdleAdmin EXCEPT !.kind = "update", !.id = id,
                                            !.bio = DbBio(updates)]]
    /\ lastCall' = [NoCall EXCEPT ![d] = [fn |-> "updatePhoto", id |-> id,
                                          updates |-> updates]]
    /\ edited' = IF DbBio(updates) = Undefined THEN edited
                 ELSE [edited EXCEPT ![d] =
                          Unedited(d, id) \cup {[id |-> id, bio |-> updates.bio]}]
    /\ fetched' = NoFetched
    /\ clearRun' = "none"
    /\ UNCHANGED <<clock, photos, subscribed, capture, fetch, events, offline, unsaved,
                   removed, toastMessage, deleted, missed, retroSnapGallery, alerted, deletedIds, earlyDeletes, merge>>

\* The remote update resolves: a matching row changes and the channel reports
\* it; an error is logged.
UpdateDone(d, ok) ==
    /\ admin[d].kind = "update"
    /\ IF ok /\ admin[d].id \in RowIds
       THEN LET row == [RowOf(admin[d].id) EXCEPT !.bio = admin[d].bio]
            IN  /\ photos' = (photos \ {RowOf(admin[d].id)}) \cup {row}
                /\ events' = Broadcast(<<[type |-> "UPDATE", row |-> row]>>)
                /\ missed' = Lost(<<[type |-> "UPDATE", row |-> row]>>)
       ELSE UNCHANGED <<photos, events, missed>>
    /\ admin' = [admin EXCEPT ![d] = IdleAdmin]
    /\ lastPublish' = NoPublish
    /\ remoteBatch' = NoBatch
    /\ dbError' = NoError
    /\ NoMarks
    /\ UNCHANGED <<clock, ops, localStorage, subscribed, currentPhotos,
                   galleryPhotos, capture, fetch, offline, unsaved, removed, clearRun,
                   toastMessage, deleted, retroSnapGallery, alerted, deletedIds, earlyDeletes, edited, merge>>

\* deletePhoto(id) on a displayed record, up to its await of the remote delete:
\* deleteLocalPhoto.
DeletePhoto(d, id) ==
    /\ subscribed[d]
    /\ admin[d].kind = "idle"
    /\ ops < MaxOps
    /\ HasId(galleryPhotos[d], id)
    /\ ops' = ops + 1
    /\ LocalChange(d, FilterOut(localStorage[d], id), galleryPhotos[d])
    /\ admin' = [admin EXCEPT ![d] = [IdleAdmin EXCEPT !.kind = "delete", !.id = id]]
    /\ removed' = removed \cup {id}
    /\ deleted' = deleted \cup {<<d, id>>}
    /\ edited' = [edited EXCEPT ![d] = Unedited(d, id)]
    /\ earlyDeletes' = IF capture[d].id = id /\ capture[d].pc = "upload"
                       THEN earlyDeletes \cup {id} ELSE earlyDeletes
    /\ lastCall' = NoCall
    /\ fetched' = NoFetched
    /\ clearRun' = "none"
    /\ UNCHANGED <<clock, photos, subscribed, capture, fetch, events, offline, unsaved,
                   toastMessage, missed, retroSnapGallery, alerted, deletedIds, merge>>

DeleteEvent(id) == [type |-> "DELETE", row |-> [id |-> id]]

\* How the promise of deletePhoto settles: `if (error) throw error` is inside
\* the try whose catch logs "Cloud delete failed".
deletePhotoSettled(ok) == "fulfilled"

\* How the promise of clearAllPhotos settles: a select error is thrown
\* inside the try whose catch logs "Clear gallery failed", a delete error is
\* logged.
clearAllPhotosSettled(ok) == "fulfilled"

\* handleConfirmAction once `await onDelete(targetPhotoId)` or
\* `await onClear()` has settled: its catch shows the alert.
handleConfirmAction(d, settled) ==
    [alerted EXCEPT ![d] = @ \/ settled = "rejected"]

\* The remote delete resolves.
DeleteDone(d, ok) ==
    /\ admin[d].kind = "delete"
    /\ IF ok /\ admin[d].id \in RowIds
       THEN /\ photos' = photos \ {RowOf(admin[d].id)}
            /\ events' = Broadcast(<<DeleteEvent(admin[d].id)>>)
            /\ missed' = Lost(<<DeleteEvent(admin[d].id)>>)
       ELSE UNCHANGED <<photos, events, missed>>
    /\ admin' = [admin EXCEPT ![d] = IdleAdmin]
    /\ alerted' = handleConfirmAction(d, deletePhotoSettled(ok))
    /\ earlyDeletes' = IF ok THEN earlyDeletes ELSE earlyDeletes \ {admin[d].id}
    /\ lastPublish' = NoPublish
    /\ remoteBatch' = NoBatch
    /\ dbError' = NoError
    /\ NoMarks
    /\ UNCHANGED <<clock, ops, localStorage, subscribed, currentPhotos,
                   galleryPhotos, capture, fetch, offline, unsaved, removed, clearRun,
                   toastMessage, deleted, retroSnapGallery, deletedIds, edited, merge>>

\* clearAllPhotos up to its await of select('id').
ClearAll(d) ==
    /\ subscribed[d]
    /\ admin[d].kind = "idle"
    /\ ops < MaxOps
    /\ ops' = ops + 1
    /\ LocalChange(d, <<>>, galleryPhotos[d])
    /\ admin' = [admin EXCEPT ![d] = [IdleAdmin EXCEPT !.kind = "select"]]
    /\ removed' = removed \cup Ids(localStorage[d])
    /\ edited' = [edited EXCEPT ![d] = {}]
    /\ clearRun' = IF NoOpInFlight THEN "running" ELSE "none"
    /\ lastCall' = NoCall
    /\ fetched' = NoFetched
    /\ UNCHANGED <<clock, photos, subscribed, capture, fetch, events, offline, unsaved,
                   toastMessage, deleted, missed, retroSnapGallery, alerted, deletedIds, earlyDeletes, merge>>

\* select('id') resolves: on an error, or with no row, clearAllPhotos ends;
\* otherwise the bulk delete of the ids read is issued.
ClearSelectDone(d, ok) ==
    /\ admin[d].kind = "select"
    /\ IF ok /\ photos # {}
       THEN /\ admin' = [admin EXCEPT ![d].kind = "bulk", ![d].ids = RowIds]
            /\ UNCHANGED <<clearRun, alerted>>
       ELSE /\ admin' = [admin EXCEPT ![d] = IdleAdmin]
            /\ alerted' = handleConfirmAction(d, clearAllPhotosSettled(ok))
            /\ clearRun' = IF clearRun = "running"
                           THEN (IF ok THEN "empty" ELSE "failed") ELSE clearRun
    /\ lastPublish' = NoPublish
    /\ remoteBatch' = NoBatch
    /\ dbError' = NoError
    /\ NoMarks
    /\ UNCHANGED <<clock, ops, photos, localStorage, subscribed, currentPhotos,
                   galleryPhotos, capture, fetch, events, offline, unsaved, removed,
                   toastMessage, deleted, missed, retroSnapGallery, deletedIds, earlyDeletes, edited, merge>>

\* The sequences that list each element of a set once.
Orders(S) ==
    {q \in [1..Cardinality(S) -> S] : \A i, j \in 1..Cardinality(S) :
                                          i # j => q[i] # q[j]}

\* The bulk delete resolves: the rows deleted are reported one by one, in the
\* order `order`; a delete error is logged.
ClearDeleteDone(d, ok, order) ==
    /\ admin[d].kind = "bulk"
    /\ IF ok
       THEN /\ order \in Orders(admin[d].ids \cap RowIds)
            /\ photos' = {r \in photos : r.id \notin admin[d].ids}
            /\ events' = Broadcast([i \in 1..Len(order) |-> DeleteEvent(order[i])])
            /\ missed' = Lost([i \in 1..Len(order) |-> DeleteEvent(order[i])])
       ELSE /\ order = <<>>
            /\ UNCHANGED <<photos, events, missed>>
    /\ admin' = [admin EXCEPT ![d] = IdleAdmin]
    /\ alerted' = handleConfirmAction(d, clearAllPhotosSettled(ok))
    /\ clearRun' = IF clearRun # "running" THEN clearRun
                   ELSE IF ~ok THEN "failed"
                   ELSE IF Overflows(order) THEN "lossy" ELSE "ok"
    /\ lastPublish' = NoPublish
    /\ remoteBatch' = NoBatch
    /\ dbError' = NoError
    /\ NoMarks
    /\ UNCHANGED <<clock, ops, localStorage, subscribed, currentPhotos,
                   galleryPhotos, capture, fetch, offline, unsaved, removed,
                   toastMessage, deleted, retroSnapGallery, deletedIds, earlyDeletes, edited, merge>>

(***************************************************************************)
(* useRealtimePhotos: fetchCloud, the realtime handler, subscribe and      *)
(* unsubscribe                                                             *)
(***************************************************************************)
\* fetchCloud is called by the polling timer; the server answers with the rows
\* it holds then.
FetchIssue(d) ==
    /\ subscribed[d]
    /\ fetch[d].st = "idle"
    /\ fetch' = [fetch EXCEPT ![d] = [st |-> "sent", rows |-> listRecent(photos)]]
    /\ lastPublish' = NoPublish
    /\ remoteBatch' = NoBatch
    /\ dbError' = NoError
    /\ missed' = Polled(d)
    /\ NoMarks
    /\ UNCHANGED <<clock, ops, photos, localStorage, subscribed, currentPhotos,
                   galleryPhotos, capture, admin, events, offline, unsaved, removed,
                   clearRun, toastMessage, deleted, retroSnapGallery, alerted, deletedIds, earlyDeletes, edited, merge>>

\* The select of fetchCloud resolves: update(cloudPhotos) unless it failed.
\* Nothing in fetchCloud looks at whether the subscription is still live.
FetchDone(d, ok) ==
    /\ fetch[d].st = "sent"
    /\ fetch' = [fetch EXCEPT ![d] = NoFetch]
    /\ \E r \in {IF ok THEN update(currentPhotos[d], MapRows(fetch[d].rows))
                    ELSE [photos |-> currentPhotos[d], publish |-> FALSE]} :
           /\ currentPhotos' = [currentPhotos EXCEPT ![d] =
                                    IF r.publish THEN r.photos ELSE @]
           /\ galleryPhotos' = [galleryPhotos EXCEPT ![d] =
                                    IF r.publish THEN r.photos ELSE @]
           /\ lastPublish' = Published(d, IF r.publish THEN <<r.photos>> ELSE <<>>)
    /\ remoteBatch' = [NoBatch EXCEPT ![d] = IF ok THEN MapRows(fetch[d].rows)
                                             ELSE <<>>]
    /\ dbError' = NoError
    /\ clearRun' = IF clearRun = "ok" /\ ok /\ fetch[d].rows # <<>> THEN "raced"
                   ELSE clearRun
    /\ fetched' = [NoFetched EXCEPT ![d] = ok]
    /\ lastCall' = NoCall
    /\ dispatched' = NoDispatch
    /\ UNCHANGED <<clock, ops, photos, localStorage, subscribed, capture, admin,
                   events, offline, unsaved, removed, toastMessage, deleted, missed,
                   retroSnapGallery, alerted, deletedIds, earlyDeletes, edited, merge>>

\* currentPhotos.map(p => p.id === updatedPhoto.id ? updatedPhoto : p)
Replace(s, photo) ==
    [i \in 1..Len(s) |-> IF s[i].id = photo.id THEN photo ELSE s[i]]

\* The realtime handler on the oldest pending event.
EventDeliver(d) ==
    /\ events[d] # <<>>
    /\ events' = [events EXCEPT ![d] = Tail(@)]
    /\ LET ev == Head(events[d])
       IN  CASE ev.type = "INSERT" ->
                 LET r == update(currentPhotos[d], <<mapDBToPhotoData(ev.row)>>)
                 IN  /\ currentPhotos' = [currentPhotos EXCEPT ![d] =
                                              IF r.publish THEN r.photos ELSE @]
                     /\ galleryPhotos' = [galleryPhotos EXCEPT ![d] =
                                              IF r.publish THEN r.photos ELSE @]
                     /\ lastPublish' =
                            Published(d, IF r.publish THEN <<r.photos>> ELSE <<>>)
                     /\ remoteBatch' =
                            [NoBatch EXCEPT ![d] = <<mapDBToPhotoData(ev.row)>>]
                     /\ dbError' = NoError
                     /\ UNCHANGED <<localStorage, removed>>
              [] ev.type = "DELETE" ->
                 LET filtered == FilterOut(currentPhotos[d], ev.row.id)
                     stored == FilterOut(localStorage[d], ev.row.id)
                     r == update(filtered, stored)
                     final == IF r.publish THEN r.photos ELSE filtered
                 IN  /\ currentPhotos' = [currentPhotos EXCEPT ![d] = final]
                     /\ galleryPhotos' = [galleryPhotos EXCEPT ![d] = final]
                     /\ lastPublish' =
                            Published(d, IF r.publish THEN <<filtered, r.photos>>
                                         ELSE <<filtered>>)
                     /\ localStorage' = [localStorage EXCEPT ![d] = stored]
                     /\ remoteBatch' = NoBatch
                     /\ dbError' = NoError
                     /\ removed' = removed \cup {ev.row.id}
              [] ev.type = "UPDATE" ->
                 LET mapped == Replace(currentPhotos[d], mapDBToPhotoData(ev.row))
                 IN  /\ currentPhotos' = [currentPhotos EXCEPT ![d] = mapped]
                     /\ galleryPhotos' = [galleryPhotos EXCEPT ![d] = mapped]
                     /\ lastPublish' = Published(d, <<mapped>>)
                     /\ remoteBatch' = NoBatch
                     /\ dbError' = NoError
                     /\ UNCHANGED <<localStorage, removed>>
    /\ dispatched' = [NoDispatch EXCEPT ![d] = Head(events[d]).type = "DELETE"]
    /\ deletedIds' = IF Head(events[d]).type = "DELETE"
                     THEN [deletedIds EXCEPT ![d] = @ \cup {Head(events[d]).row.id}]
                     ELSE deletedIds
    /\ edited' = IF Head(events[d]).type = "DELETE"
                 THEN [edited EXCEPT ![d] = Unedited(d, Head(events[d]).row.id)]
                 ELSE edited
    /\ lastCall' = NoCall
    /\ fetched' = NoFetched
    /\ UNCHANGED <<clock, ops, photos, subscribed, capture, admin, fetch,
                   offline, unsaved, clearRun, toastMessage, deleted, missed, retroSnapGallery, alerted, earlyDeletes, merge>>

\* The channel loses the oldest pending event.
EventDrop(d) ==
    /\ events[d] # <<>>
    /\ events' = [events EXCEPT ![d] = Tail(@)]
    /\ clearRun' = IF clearRun = "ok" THEN "lossy" ELSE clearRun
    /\ missed' = [missed EXCEPT ![d] = @ \cup LostEvent(Head(events[d]))]
    /\ lastPublish' = NoPublish
    /\ remoteBatch' = NoBatch
    /\ dbError' = NoError
    /\ NoMarks
    /\ UNCHANGED <<clock, ops, photos, localStorage, subscribed, currentPhotos,
                   galleryPhotos, capture, admin, fetch, offline, unsaved, removed,
                   toastMessage, deleted, retroSnapGallery, alerted, deletedIds, earlyDeletes, edited, merge>>

\* The page is left while no call of the user is in flight: unsubscribe()
\* removes the timer, the channel and the listeners; a fetch in flight stays
\* in flight.
Unsubscribe(d) ==
    /\ subscribed[d]
    /\ capture[d].pc = "idle"
    /\ admin[d].kind = "idle"
    /\ ops < MaxOps
    /\ ops' = ops + 1
    /\ subscribed' = [subscribed EXCEPT ![d] = FALSE]
    /\ events' = [events EXCEPT ![d] = <<>>]
    /\ deletedIds' = [deletedIds EXCEPT ![d] = {}]
    /\ edited' = [edited EXCEPT ![d] = {}]
    /\ lastPublish' = NoPublish
    /\ remoteBatch' = NoBatch
    /\ dbError' = NoError
    /\ clearRun' = "none"
    /\ NoMarks
    /\ UNCHANGED <<clock, photos, localStorage, currentPhotos,
                   galleryPhotos, capture, admin, fetch, offline, unsaved, removed,
                   toastMessage, deleted, missed, retroSnapGallery, alerted, earlyDeletes, merge>>

\* useRealtimePhotos(onPhotosUpdated) after a reload: the Local Mirror is
\* published, fetchCloud is called, the channel and the listeners are set up.
Subscribe(d) ==
    /\ ~subscribed[d]
    /\ fetch[d].st = "idle"
    /\ subscribed' = [subscribed EXCEPT ![d] = TRUE]
    /\ currentPhotos' = [currentPhotos EXCEPT ![d] = localStorage[d]]
    /\ galleryPhotos' = [galleryPhotos EXCEPT ![d] = localStorage[d]]
    /\ lastPublish' = [e \in Devices |-> IF e = d THEN "initial" ELSE "none"]
    /\ remoteBatch' = NoBatch
    /\ dbError' = NoError
    /\ fetch' = [fetch EXCEPT ![d] = [st |-> "sent", rows |-> listRecent(photos)]]
    /\ missed' = Polled(d)
    /\ NoMarks
    /\ UNCHANGED <<clock, ops, photos, localStorage, capture, admin, events,
                   offline, unsaved, removed, clearRun, toastMessage, deleted,
                   retroSnapGallery, alerted, deletedIds, earlyDeletes, edited, merge>>

\* Another client of the table inserts a row of its own (the insert of its
\* uploadAndSavePhoto), with the uploaded or the inline image.
PeerInsert(url) ==
    /\ ops < MaxOps
    /\ ops' = ops + 1
    /\ clock' = clock + 1
    /\ LET row == [id |-> ops + 1, image_url |-> url, bio |-> Null,
                   created_at |-> clock + 1]
       IN  /\ photos' = photos \cup {row}
           /\ events' = Broadcast(<<[type |-> "INSERT", row |-> row]>>)
    /\ lastPublish' = NoPublish
    /\ remoteBatch' = NoBatch
    /\ dbError' = NoError
    /\ clearRun' = "none"
    /\ NoMarks
    /\ UNCHANGED <<localStorage, subscribed, currentPhotos, galleryPhotos,
                   capture, admin, fetch, offline, unsaved, removed, toastMessage,
                   deleted, missed, retroSnapGallery, alerted, deletedIds, earlyDeletes, edited, merge>>

\* One device, "A", with everything its user can do, and the other clients of
\* the table as PeerInsert.
Init == Start({"A"})

Capture(d) ==
    \/ TakePhoto(d)
    \/ \E captionOk \in BOOLEAN, quota \in BOOLEAN : CaptionDone(d, captionOk, quota)
    \/ \E ok \in BOOLEAN : UploadDone(d, ok)
    \/ \E outcome \in InsertOutcomes : InsertDone(d, outcome)
    \/ \E ok \in BOOLEAN : RetryDone(d, ok)

Watch(d) ==
    \/ FetchIssue(d)
    \/ \E ok \in BOOLEAN : FetchDone(d, ok)
    \/ EventDeliver(d)
    \/ EventDrop(d)

Manage(d) ==
    \/ \E id \in 1..MaxOps, updates \in UpdateInputs : UpdatePhoto(d, id, updates)
    \/ \E ok \in BOOLEAN : UpdateDone(d, ok)
    \/ \E id \in 1..MaxOps : DeletePhoto(d, id)
    \/ \E ok \in BOOLEAN : DeleteDone(d, ok)
    \/ ClearAll(d)
    \/ \E ok \in BOOLEAN : ClearSelectDone(d, ok)
    \/ \E ok \in BOOLEAN :
           \E order \in UNION {Orders(S) : S \in SUBSET admin[d].ids} :
               ClearDeleteDone(d, ok, order)
    \/ Unsubscribe(d)
    \/ Subscribe(d)

Next ==
    \/ Capture("A")
    \/ Watch("A")
    \/ Manage("A")
    \/ \E url \in {Base64, PublicUrl} : PeerInsert(url)

Spec == Init /\ [][Next]_vars

\* Two devices that capture and watch, MaxCaptures captures between them;
\* the caption call succeeds, the Local Mirror takes every write, an insert
\* succeeds or fails for good.
InitPair == Start(Devices)

NextPair ==
    \E d \in Devices :
        \/ ops < MaxCaptures /\ TakePhoto(d)
        \/ CaptionDone(d, TRUE, FALSE)
        \/ \E ok \in BOOLEAN : UploadDone(d, ok)
        \/ \E outcome \in {"ok", "other"} : InsertDone(d, outcome)
        \/ Watch(d)

SpecPair == InitPair /\ [][NextPair]_vars

\* The polling timer keeps calling fetchCloud (setInterval, 2000 ms), and of the
\* selects it keeps issuing, one succeeds again and again.
SpecPairFair ==
    SpecPair /\ \A d \in Devices : WF_vars(FetchIssue(d)) /\ SF_vars(FetchDone(d, TRUE))

\* The Local Mirror alone: saveLocalBackup applied to the list stored on "A",
\* with no subscription listening, to a fresh record or to the record stored
\* last; at most MaxQuota writes fail.
InitCap == Start({})

Upsert(d, fresh, quota) ==
    /\ IF fresh THEN ops < MaxUpserts ELSE localStorage[d] # <<>>
    /\ quota => Cardinality(unsaved) < MaxQuota
    /\ LET photo == IF fresh THEN [id |-> ops + 1, imageUrl |-> Base64,
                                   bio |-> Undefined, timestamp |-> clock + 1]
                    ELSE Head(localStorage[d])
           sv == saveLocalBackup(localStorage[d], photo, quota)
       IN  /\ localStorage' = [localStorage EXCEPT ![d] = sv.stored]
           /\ unsaved' = IF fresh /\ ~sv.event THEN unsaved \cup {photo.id}
                         ELSE unsaved
           /\ removed' = removed \cup (Ids(localStorage[d]) \ Ids(sv.stored))
           /\ dispatched' = [NoDispatch EXCEPT ![d] = sv.event]
    /\ ops' = IF fresh THEN ops + 1 ELSE ops
    /\ clock' = IF fresh THEN clock + 1 ELSE clock
    /\ UNCHANGED <<photos, subscribed, currentPhotos, lastPublish, remoteBatch,
                   dbError, galleryPhotos, capture, admin, fetch, events, offline,
                   clearRun, toastMessage, lastCall, fetched, deleted, missed,
                   retroSnapGallery, alerted, deletedIds, earlyDeletes, edited, merge>>

NextCap == \E fresh \in BOOLEAN, quota \in BOOLEAN : Upsert("A", fresh, quota)

SpecCap == InitCap /\ [][NextCap]_vars

\* mergePhotos alone: a call with two batches of at most MaxBatch records,
\* which may repeat an id within a batch and across the batches, may tie on
\* the timestamp and come in any order.
MergeRecords ==
    [id : 1..3, imageUrl : {Base64, PublicUrl}, timestamp : 1..2]

Batches == UNION {[1..n -> MergeRecords] : n \in 0..MaxBatch}

InitMerge ==
    /\ Mounted({})
    /\ retroSnapGallery = NoGallery
    /\ \E cloudPhotos \in Batches, localPhotos \in Batches :
           merge = [cloudPhotos |-> cloudPhotos, localPhotos |-> localPhotos,
                    returned |-> FALSE, result |-> <<>>]

Merge ==
    /\ ~merge.returned
    /\ merge' = [merge EXCEPT
                     !.returned = TRUE,
                     !.result = mergePhotos(merge.cloudPhotos, merge.localPhotos)]
    /\ UNCHANGED <<clock, ops, photos, localStorage, subscribed, currentPhotos,
                   lastPublish, remoteBatch, dbError, galleryPhotos, capture, admin,
                   fetch, events, offline, unsaved, removed, clearRun, toastMessage,
                   lastCall, dispatched, fetched, deleted, missed, retroSnapGallery, alerted, deletedIds, earlyDeletes, edited>>

NextMerge == Merge

SpecMerge == InitMerge /\ [][NextMerge]_vars

(***************************************************************************)
(* The local-storage variant of App (src/unnamed/part_006): the gallery is *)
(* the item 'retro-snap-gallery', cleaned of records older than 24 hours   *)
(* when it is loaded. A record is [id, timestamp], timestamp NoTimestamp   *)
(* for a record saved before timestamps were; time is in milliseconds.     *)
(* item: the item exists; stored: the list it holds, <<>> when it does not *)
(* exist (existingJson ? JSON.parse(existingJson) : []).                   *)
(***************************************************************************)
twentyFourHoursMs == 24 * 60 * 60 * 1000

\* The ages, at the start of a run, of the records found stored.
Ages == {1, twentyFourHoursMs - 1, twentyFourHoursMs, twentyFourHoursMs + 1}

\* Date.now() at the start of a run.
StartTime == 2 * twentyFourHoursMs

\* The times a run of the variant reads Date.now() at.
Times == {StartTime + a : a \in {0} \cup Ages}

\* The timestamp of a record that has none: !p.timestamp holds of
\* undefined as it does of 0.
NoTimestamp == 0

\* A variant of validPhoto with a plausible fault: a record of exactly 24
\* hours is kept.
validPhotoAtLimit(p, now) ==
    IF p.timestamp = NoTimestamp THEN TRUE
    ELSE (now - p.timestamp) <= twentyFourHoursMs

\* The filter of loadAndCleanGallery:
\*   if (!p.timestamp) return true;
\*   return (now - p.timestamp) < twentyFourHoursMs;
validPhoto(p, now) ==
    IF p.timestamp = NoTimestamp THEN TRUE
    ELSE (now - p.timestamp) < twentyFourHoursMs

\* parsed.filter(...)
RECURSIVE validPhotos(_, _)
validPhotos(parsed, now) ==
    IF parsed = <<>> THEN <<>>
    ELSE (IF validPhoto(Head(parsed), now) THEN <<Head(parsed)>> ELSE <<>>)
             \o validPhotos(Tail(parsed), now)

\* The variables of the Supabase revision.
appVars == <<clock, ops, photos, localStorage, subscribed, currentPhotos,
             lastPublish, remoteBatch, dbError, galleryPhotos, capture, admin,
             fetch, events, offline, unsaved, removed, clearRun, toastMessage,
             lastCall, dispatched, fetched, deleted, missed, alerted, deletedIds, earlyDeletes, edited, merge>>

StoredRecords ==
    [id : 1..MaxStored, timestamp : {NoTimestamp} \cup {StartTime - a : a \in Ages}]

\* The item as an earlier session left it: absent, or up to MaxStored records
\* of distinct ids.
StoredLists ==
    {q \in UNION {[1..n -> StoredRecords] : n \in 0..MaxStored} : Unique(q)}

InitRetention ==
    /\ Mounted({})
    /\ merge = NoMerge
    /\ \/ retroSnapGallery = [NoGallery EXCEPT !.now = StartTime]
       \/ \E stored \in StoredLists :
              retroSnapGallery = [NoGallery EXCEPT !.item = TRUE,
                                                   !.stored = stored,
                                                   !.now = StartTime]

\* loadAndCleanGallery, run at mount, on a message of another tab and on a
\* storage event.
loadAndCleanGallery ==
    /\ retroSnapGallery' =
           IF ~retroSnapGallery.item
           THEN [retroSnapGallery EXCEPT !.loaded = TRUE, !.found = <<>>]
           ELSE LET parsed == retroSnapGallery.stored
                    valid == validPhotos(parsed, retroSnapGallery.now)
                IN  [retroSnapGallery EXCEPT
                         !.stored = IF Len(valid) # Len(parsed) THEN valid ELSE @,
                         !.galleryPhotos = valid,
                         !.loaded = TRUE,
                         !.found = parsed]
    /\ UNCHANGED appVars

\* handleTakePhoto of the variant, after the caption: the new photo is added
\* at the end of the item and the list written is shown.
handleTakePhoto ==
    /\ Len(retroSnapGallery.stored) < MaxStored
    /\ LET currentGallery == retroSnapGallery.stored
           newPhoto == [id |-> CHOOSE id \in 1..MaxStored :
                                   ~HasId(currentGallery, id),
                        timestamp |-> retroSnapGallery.now]
           updatedGallery == currentGallery \o <<newPhoto>>
       IN  retroSnapGallery' = [retroSnapGallery EXCEPT
                                    !.item = TRUE,
                                    !.stored = updatedGallery,
                                    !.galleryPhotos = updatedGallery,
                                    !.loaded = FALSE,
                                    !.found = <<>>]
    /\ UNCHANGED appVars

\* handleDeletePhoto(id) on a displayed record.
handleDeletePhoto(id) ==
    /\ HasId(retroSnapGallery.galleryPhotos, id)
    /\ retroSnapGallery' =
           IF ~retroSnapGallery.item
           THEN [retroSnapGallery EXCEPT !.loaded = FALSE, !.found = <<>>]
           ELSE [retroSnapGallery EXCEPT
                     !.stored = FilterOut(@, id),
                     !.galleryPhotos = FilterOut(retroSnapGallery.stored, id),
                     !.loaded = FALSE,
                     !.found = <<>>]
    /\ UNCHANGED appVars

\* Time passes.
Elapse(now) ==
    /\ now > retroSnapGallery.now
    /\ retroSnapGallery' = [retroSnapGallery EXCEPT !.now = now,
                                                     !.loaded = FALSE,
                                                     !.found = <<>>]
    /\ UNCHANGED appVars

NextRetention ==
    \/ loadAndCleanGallery
    \/ handleTakePhoto
    \/ \E id \in 1..MaxStored : handleDeletePhoto(id)
    \/ \E now \in Times : Elapse(now)

SpecRetention == InitRetention /\ [][NextRetention]_vars

(***************************************************************************)
(* Properties                                                              *)
(***************************************************************************)
\* C1: after a remote batch (a fetch result, the record of an INSERT event) is
\* merged, the published list holds each record of the batch exactly once and
\* in the batch's version.
C1_RemoteVersionPublished ==
    \A d \in Devices : \A i \in 1..Len(remoteBatch[d]) :
        /\ Cardinality({j \in 1..Len(currentPhotos[d]) :
                            currentPhotos[d][j].id = remoteBatch[d][i].id}) = 1
        /\ \E j \in 1..Len(currentPhotos[d]) :
               currentPhotos[d][j] = remoteBatch[d][i]

\* C2: every list useRealtimePhotos has published is sorted by timestamp,
\* descending.
C2_PublishedSorted == \A d \in Devices : SortedDesc(currentPhotos[d])

\* C3: no publish after the initial one delivers the list published before it.
C3_PublishOnlyChanges == \A d \in Devices : lastPublish[d] # "same"

C5_HeadBeforeCaption ==
    \A d \in Devices :
        capture[d].pc \in {"caption", "upload", "insert", "retry"} =>
            /\ galleryPhotos[d] # <<>>
            /\ Head(galleryPhotos[d]).id = capture[d].id

\* C6: while a network call of a capture is pending, the first of them, the
\* caption call, included, the record is in the Local Mirror unless it has
\* left it since.
C6_StoredBeforeCaption ==
    \A d \in Devices :
        (capture[d].pc \in {"caption", "upload", "insert", "retry"}
             /\ capture[d].id \notin removed) =>
            HasId(localStorage[d], capture[d].id)

\* C7: a full insert that fails with COLUMN_NOT_FOUND is followed by exactly
\* one insert, of id, image_url and caption alone; one that fails with
\* TABLE_NOT_FOUND or another error ends the capture; a capture issues at most
\* two inserts.
C7_DegradedInsert ==
    \A d \in Devices :
        /\ Len(capture[d].inserts) <= 2
        /\ dbError[d] \in ColumnNotFound =>
               /\ capture[d].pc = "retry"
               /\ capture[d].inserts = <<FullColumns, {"id", "image_url", "caption"}>>
        /\ dbError[d] \in TableNotFound \cup {"other"} => capture[d].pc = "idle"

C9_BothArrive ==
    /\ \A id \in 1..MaxCaptures :
           (id \in RowIds) ~> (\A d \in Devices : HasId(currentPhotos[d], id))
    /\ [](\A d \in Devices : SortedDesc(currentPhotos[d]))
    /\ [][\A d \in Devices : Ids(currentPhotos[d]) \subseteq Ids(currentPhotos'[d])]_vars

C9_Witness ==
    \E x \in Ids(localStorage["A"]), y \in Ids(localStorage["B"]) :
        /\ RowIds = {x, y}
        /\ \A d \in Devices : Ids(currentPhotos[d]) = {x, y}

\* C10: once clearAllPhotos has run alone, its remote delete has succeeded and
\* every event of it is handled, the Local Mirror, the table and the list of
\* every live subscription are empty.
C10_ClearEmptiesAll ==
    (clearRun = "ok" /\ \A d \in Devices : events[d] = <<>> /\ fetch[d].st = "idle") =>
        /\ photos = {}
        /\ \A d \in Devices : localStorage[d] = <<>>
        /\ \A d \in Devices : subscribed[d] => currentPhotos[d] = <<>>

\* C11: while deletePhoto(id) awaits the answer to its remote delete, the
\* record deleted from the Local Mirror already, the list of the live
\* subscription of the device does not hold id.
C11_DeletedIdUnpublished ==
    \A d \in Devices :
        (admin[d].kind = "delete" /\ subscribed[d]) =>
            /\ ~HasId(localStorage[d], admin[d].id)
            /\ ~HasId(currentPhotos[d], admin[d].id)

\* C12: an id that deletePhoto was called with is not in the Local Mirror of
\* the device, while the remote delete is awaited and after it succeeded or
\* failed, whatever fetch results, realtime events and upload completions
\* follow.
C12_DeletedStaysOutOfLocalMirror ==
    \A pair \in deleted : ~HasId(localStorage[pair[1]], pair[2])

\* The remote delete failed or was lost, so the row is still there, and the
\* fetch result merged last holds it.
C12_Witness ==
    \E pair \in deleted :
        /\ admin[pair[1]].kind = "idle"
        /\ pair[2] \in RowIds
        /\ fetched[pair[1]]
        /\ HasId(remoteBatch[pair[1]], pair[2])
        /\ ~HasId(localStorage[pair[1]], pair[2])

\* C13: once the result of a fetch that shows the table as it is now has been
\* merged, the list of the live subscription holds every row of the result,
\* so every row whose INSERT event was lost; and of the UPDATE and DELETE
\* events that were lost before the fetch was issued, a row updated is in the
\* list with the bio of the row, an id deleted is not in the list.
C13_FetchRepairsMissedEvents ==
    \A d \in Devices :
        (subscribed[d] /\ fetched[d]
             /\ remoteBatch[d] = MapRows(listRecent(photos))) =>
            /\ Ids(remoteBatch[d]) \subseteq Ids(currentPhotos[d])
            /\ \A ev \in {e \in missed[d] : e.polled} :
                   IF ev.id \in RowIds
                   THEN \E i \in 1..Len(currentPhotos[d]) :
                            /\ currentPhotos[d][i].id = ev.id
                            /\ currentPhotos[d][i].bio
                                   = mapDBToPhotoData(RowOf(ev.id)).bio
                   ELSE ~HasId(currentPhotos[d], ev.id)

C15_OnlyAllowListedFields ==
    [][\A d \in Devices :
          /\ lastCall'[d].fn = "updatePhoto" =>
                 LET id == lastCall'[d].id
                     updates == lastCall'[d].updates
                     allowed == [k \in (DOMAIN updates) \cap AllowList |-> updates[k]]
                 IN  /\ Len(localStorage'[d]) = Len(localStorage[d])
                     /\ \A i \in 1..Len(localStorage[d]) :
                            localStorage'[d][i] =
                                IF localStorage[d][i].id = id
                                THEN Spread(localStorage[d][i], allowed)
                                ELSE localStorage[d][i]
          /\ (admin[d].kind = "update" /\ admin'[d].kind = "idle") =>
                 \A r \in photos :
                     IF r.id = admin[d].id
                     THEN \E q \in photos' : [q EXCEPT !.bio = r.bio] = r
                     ELSE r \in photos'
      ]_vars

\* C16: every step that changes the list stored in the Local Mirror of a
\* device dispatches 'local-gallery-update' on it.
C16_LocalChangeNotified ==
    [][\A d \in Devices : localStorage'[d] # localStorage[d] => dispatched'[d]]_vars

\* C17: while the upload or an insert of a capture is pending, the shutter
\* takes a further photo (as long as the run has an operation left).
C17_ShutterOpenDuringRemoteCall ==
    \A d \in Devices :
        (subscribed[d] /\ ops < MaxOps
             /\ capture[d].pc \in {"upload", "insert", "retry"}) =>
            ENABLED TakePhoto(d)

\* C18: what mergePhotos(cloudPhotos, localPhotos) returns holds one record
\* for each id of either batch and no other, a record of the cloud batch for
\* an id the cloud batch holds and a record of the local batch otherwise, and
\* is sorted by timestamp, descending.
C18_MergeOnePerIdCloudWins ==
    merge.returned =>
        /\ Ids(merge.result) = Ids(merge.cloudPhotos) \cup Ids(merge.localPhotos)
        /\ Unique(merge.result)
        /\ SortedDesc(merge.result)
        /\ \A i \in 1..Len(merge.result) :
               IF HasId(merge.cloudPhotos, merge.result[i].id)
               THEN \E j \in 1..Len(merge.cloudPhotos) :
                        merge.cloudPhotos[j] = merge.result[i]
               ELSE \E j \in 1..Len(merge.localPhotos) :
                        merge.localPhotos[j] = merge.result[i]

\* The batches share an id in two versions, the result has three records with
\* two timestamps, and the local batch came in ascending order.
C18_Witness ==
    /\ merge.returned
    /\ Len(merge.result) = 3
    /\ \E i \in 1..Len(merge.cloudPhotos), j \in 1..Len(merge.localPhotos) :
           /\ merge.cloudPhotos[i].id = merge.localPhotos[j].id
           /\ merge.cloudPhotos[i] # merge.localPhotos[j]
    /\ merge.result[1].timestamp > merge.result[3].timestamp
    /\ ~SortedDesc(merge.localPhotos)

\* C19: no two records share an id in the Local Mirror, in the list of
\* useRealtimePhotos or in the gallery list of App.
C19_NoDuplicateIds ==
    \A d \in Devices :
        /\ Unique(localStorage[d])
        /\ Unique(currentPhotos[d])
        /\ Unique(galleryPhotos[d])

\* A fetch result was merged that holds a record the device stores and lists
\* already, beside another record.
C19_Witness ==
    \E d \in Devices :
        /\ fetched[d]
        /\ Ids(remoteBatch[d]) \cap Ids(localStorage[d]) # {}
        /\ Len(remoteBatch[d]) >= 2
        /\ Ids(galleryPhotos[d]) = Ids(remoteBatch[d])

\* C20: every record that a fetch result or an INSERT event brought to
\* useRealtimePhotos is stored in the Local Mirror of the device when the
\* merge is done (the runs stay below the capacity cap).
C20_ObservedRecordsStored ==
    \A d \in Devices : Ids(remoteBatch[d]) \subseteq Ids(localStorage[d])

\* C21: when the storage upload of uploadAndSavePhoto resolves, the full row
\* insert is issued; after a failed upload the Local Mirror is left as it
\* was and the image location is the inline image, after a successful one the
\* stored record of the capture, if there is one, takes the public URL, the
\* other records stay, and the image location is the public URL. The row
\* an insert of the capture creates carries that image location, and
\* uploadAndSavePhoto returns it.
C21_ImageLocation ==
    [][\A d \in Devices :
          /\ (capture[d].pc = "upload" /\ capture'[d].pc # "upload") =>
                 /\ capture'[d].pc = "insert"
                 /\ capture'[d].inserts = <<FullColumns>>
                 /\ capture'[d].finalImageUrl
                        = (IF capture'[d].upload = "ok" THEN PublicUrl ELSE Base64)
                 /\ Len(localStorage'[d]) = Len(localStorage[d])
                 /\ \A i \in 1..Len(localStorage[d]) :
                        localStorage'[d][i] =
                            IF capture'[d].upload = "ok"
                                  /\ localStorage[d][i].id = capture[d].id
                            THEN [localStorage[d][i] EXCEPT !.imageUrl = PublicUrl]
                            ELSE localStorage[d][i]
          /\ lastCall'[d].fn = "uploadAndSavePhoto" =>
                 /\ lastCall'[d].finalImageUrl
                        = (IF lastCall'[d].upload = "ok" THEN PublicUrl ELSE Base64)
                 /\ lastCall'[d].row =>
                        \E r \in photos' \ photos :
                            /\ r.id = lastCall'[d].id
                            /\ r.image_url = lastCall'[d].finalImageUrl
      ]_vars

\* uploadAndSavePhoto has returned the inline image after a failed upload:
\* its insert created the row, the record is stored with the inline image.
C21_Witness ==
    \E d \in Devices :
        /\ lastCall[d].fn = "uploadAndSavePhoto"
        /\ lastCall[d].upload = "failed"
        /\ lastCall[d].row
        /\ \E r \in photos : r.id = lastCall[d].id /\ r.image_url = Base64
        /\ \E i \in 1..Len(localStorage[d]) :
               /\ localStorage[d][i].id = lastCall[d].id
               /\ localStorage[d][i].imageUrl = Base64

\* C22: a saveLocalBackup whose write throws returns to its caller (a capture
\* goes on to its upload), and leaves in the Local Mirror a leading part of
\* what was stored, not an empty one unless nothing was stored: no record it
\* did not hold, and no record dropped that is newer than a record kept.
C22_FailedWriteKeepsNewest ==
    [][unsaved' # unsaved =>
          \A d \in Devices :
              /\ capture[d].pc = "caption" => capture'[d].pc = "upload"
              /\ Len(localStorage'[d]) <= Len(localStorage[d])
              /\ localStorage'[d] = Take(localStorage[d], Len(localStorage'[d]))
              /\ localStorage[d] # <<>> => localStorage'[d] # <<>>
              /\ \A i \in 1..Len(localStorage'[d]) :
                     \A j \in (Len(localStorage'[d]) + 1)..Len(localStorage[d]) :
                         localStorage[d][i].timestamp > localStorage[d][j].timestamp
      ]_vars

\* A failed write has cut a Local Mirror of more than ShrinkTo records down to
\* the ShrinkTo newest.
C22_Witness ==
    /\ unsaved # {}
    /\ Len(localStorage["A"]) = ShrinkTo
    /\ removed # {}
    /\ ops \notin Ids(localStorage["A"])
    /\ ops - 1 \in Ids(localStorage["A"])

\* C23: after a load of the local-storage variant the displayed gallery and
\* the item stored hold, once each, exactly the records found stored that
\* have no timestamp or are less than 24 hours old; every record without a
\* timestamp that was found is still stored.
C23_LoadKeepsFreshAndLegacy ==
    retroSnapGallery.loaded =>
        LET found == retroSnapGallery.found
            stored == retroSnapGallery.stored
            shown == retroSnapGallery.galleryPhotos
            kept == {found[i] : i \in
                        {j \in 1..Len(found) :
                            \/ found[j].timestamp = NoTimestamp
                            \/ retroSnapGallery.now - found[j].timestamp
                                   < twentyFourHoursMs}}
        IN  /\ {shown[i] : i \in 1..Len(shown)} = kept
            /\ Len(shown) = Cardinality(kept)
            /\ {stored[i] : i \in 1..Len(stored)} = kept
            /\ Len(stored) = Cardinality(kept)
            /\ \A i \in 1..Len(found) :
                   found[i].timestamp = NoTimestamp =>
                       \E j \in 1..Len(stored) : stored[j] = found[i]

\* A load found a record without a timestamp, a record of 24 hours or more
\* and a younger one, and removed one of the three.
C23_Witness ==
    /\ retroSnapGallery.loaded
    /\ Len(retroSnapGallery.found) = 3
    /\ Len(retroSnapGallery.galleryPhotos) = 2
    /\ Len(retroSnapGallery.stored) = 2
    /\ \E i \in 1..2 : retroSnapGallery.galleryPhotos[i].timestamp = NoTimestamp
    /\ \E i \in 1..2 :
           /\ retroSnapGallery.galleryPhotos[i].timestamp # NoTimestamp
           /\ retroSnapGallery.now - retroSnapGallery.galleryPhotos[i].timestamp
                  = twentyFourHoursMs - 1

\* The step sees the remote delete of deletePhoto fail: the call ends and a
\* row of its id stays in the table.
DeleteFailed(d) ==
    /\ admin[d].kind = "delete"
    /\ admin'[d].kind = "idle"
    /\ admin[d].id \in RowIds
    /\ photos' = photos

\* The step sees the select or the bulk delete of clearAllPhotos fail: the
\* call ends after its select although the table holds rows, or after its
\* bulk delete with the rows it named still there.
ClearFailed(d) ==
    /\ admin'[d].kind = "idle"
    /\ \/ admin[d].kind = "select" /\ photos # {}
       \/ /\ admin[d].kind = "bulk"
          /\ admin[d].ids \cap RowIds # {}
          /\ photos' = photos

\* C24: the step in which the remote delete of deletePhoto, or the select or
\* bulk delete of clearAllPhotos, fails shows the 'Action failed' alert of
\* handleConfirmAction; no step of a capture or of an update shows it.
C24_DestructiveFailureAlerts ==
    [][\A d \in Devices :
          /\ (DeleteFailed(d) \/ ClearFailed(d)) => alerted'[d]
          /\ (capture'[d] # capture[d] \/ admin[d].kind = "update"
                 \/ admin'[d].kind = "update") =>
                 alerted'[d] = alerted[d]
      ]_vars

\* C25: the pinboard gallery, given the list the subscription published,
\* renders the records by timestamp, descending.
C25_RenderedNewestFirst ==
    \A d \in Devices :
        (subscribed[d] /\ galleryPhotos[d] = currentPhotos[d]) =>
            SortedDesc(PinboardGallery(galleryPhotos[d]))

\* C26: once unsubscribe() has returned, nothing is passed to the subscriber
\* callback of the device until it subscribes again.
C26_SilentAfterUnsubscribe ==
    \A d \in Devices : ~subscribed[d] => lastPublish[d] = "none"

\* C27: an id whose DELETE event the live subscription of a device has
\* handled is in no list the subscription holds afterwards (in a run no id is
\* inserted into the table twice).
C27_DeletedIdStaysOut ==
    \A d \in Devices : \A id \in deletedIds[d] : ~HasId(currentPhotos[d], id)

\* C28: when deletePhoto(id) was called while uploadAndSavePhoto of id had
\* not yet issued its insert, and its remote delete returned no error, then
\* once neither call is in flight the table holds no row of id.
C28_EarlyDeleteLeavesNoRow ==
    \A id \in earlyDeletes :
        (\A d \in Devices :
             /\ capture[d].id # id
             /\ ~(admin[d].kind = "delete" /\ admin[d].id = id)) =>
            id \notin RowIds

\* C29: the displayed gallery shows, for every record whose bio was edited
\* with handleUpdatePhoto and that was not deleted since, the bio of the last
\* edit.
C29_EditStaysDisplayed ==
    \A d \in Devices : \A e \in edited[d] :
        \E i \in 1..Len(galleryPhotos[d]) :
            /\ galleryPhotos[d][i].id = e.id
            /\ galleryPhotos[d][i].bio = e.bio

\* The captures of the run are over, no call is in flight, no realtime event
\* is pending, and every record a device stores or lists is a row of the
\* table: from here on only the polling fetches run, and one succeeds on each
\* device again and again.
Quiescent ==
    /\ ops = MaxCaptures
    /\ NoOpInFlight
    /\ \A d \in Devices :
           /\ subscribed[d]
           /\ events[d] = <<>>
           /\ Ids(localStorage[d]) \subseteq RowIds
           /\ Ids(currentPhotos[d]) \subseteq RowIds

\* C30: at quiescence, once a polling fetch has succeeded on each device,
\* the two devices hold the same list: the same records, with the same field
\* values, in the same order.
C30_QuiescentListsAgree ==
    Quiescent ~> (currentPhotos["A"] = currentPhotos["B"])

====
